---- MODULE Spec2Model ----
(***************************************************************************)
(* HashThePlanet: the git ingestion pipeline (GitResource), the store      *)
(* operations it feeds (DbConnector) and the lookup side, as state         *)
(* machines.                                                               *)
(*                                                                         *)
(* Three specifications share the variables:                               *)
(*   Spec        runs of GitResource.compute_hashes against a repository   *)
(*               whose tag list grows between the runs;                    *)
(*   SpecFilter  GitResource._filter_stored_tags applied to bounded        *)
(*               stored/found lists;                                       *)
(*   SpecStore   the DbConnector operations called directly.               *)
(***************************************************************************)
EXTENDS Integers, Sequences, FiniteSets, TLC

VARIABLES
    repo,       \* the tags of the remote repository, in repo.tags order
    version,    \* table "version": rows in physical insertion order
    file,       \* table "file": rows in the order of their insertion
    hash,       \* table "hash": set of rows
    run,        \* what the last operation did and returned
    scanned,    \* pairs of tags diffed by earlier runs that committed
    ingested    \* per hash given to an upsert: first technology, every version given

vars == <<repo, version, file, hash, run, scanned, ingested>>

-----------------------------------------------------------------------------
(* Bounds of the model *)

\* blob contents are 0..MaxContent: 0 = the path is absent from the tree,
\* 1 = the empty blob, 2.. = distinct non-empty byte strings
MaxContent == 2

\* longest stored list fed to _filter_stored_tags under SpecFilter
MaxStored == 4

\* Python's None; the values that may be None are tuples
None == <<>>

\* tag labels of the repository under Spec
Labels == {"1.2.3", "1.2.4", "1.2.5"}

\* paths in tree (and diff) order
Paths == <<"LICENSE", "setup.cfg", "tests/foobar.js">>

PathSet == {Paths[i] : i \in 1..Len(Paths)}

-----------------------------------------------------------------------------
(* Sequence helpers *)

Range(s) == {s[i] : i \in 1..Len(s)}

Contains(s, x) == \E i \in 1..Len(s) : s[i] = x

\* list.index(x): the first position of x (0-based in Python, 1-based here)
IndexOf(s, x) == CHOOSE i \in 1..Len(s) : s[i] = x /\ \A j \in 1..(i - 1) : s[j] # x

\* the sequences over S without repetition, of length at most n
RECURSIVE DistinctSeqs(_, _)
DistinctSeqs(S, n) ==
    IF n = 0 THEN {<<>>}
    ELSE LET shorter == DistinctSeqs(S, n - 1)
         IN shorter \cup {Append(p[1], p[2]) :
                              p \in {q \in shorter \X S :
                                        Len(q[1]) = n - 1 /\ ~Contains(q[1], q[2])}}

\* every ordering of the elements of a sequence
Orderings(s) == {[i \in 1..Len(s) |-> s[f[i]]] : f \in Permutations(1..Len(s))}

-----------------------------------------------------------------------------
(* GitResource._filter_stored_tags *)

\* _filter_stored_tags with the "and not result" test dropped: the tag before
\* every divergent tag is added
RECURSIVE FilterLoopEveryPrev(_, _, _, _)
FilterLoopEveryPrev(stored_versions, found_tags, found_tag_idx, result) ==
    IF found_tag_idx > Len(found_tags) THEN result
    ELSE LET found_tag == found_tags[found_tag_idx]
             divergent == \/ found_tag_idx > Len(stored_versions)
                          \/ found_tag.name # stored_versions[found_tag_idx]
             withPrev == IF found_tag_idx - 1 >= 1
                         THEN Append(result, found_tags[found_tag_idx - 1])
                         ELSE result
         IN FilterLoopEveryPrev(stored_versions, found_tags, found_tag_idx + 1,
                                IF divergent THEN Append(withPrev, found_tag) ELSE result)

filter_stored_tags_every_prev(stored_versions, found_tags) ==
    IF Len(stored_versions) = Len(found_tags) THEN <<>>
    ELSE FilterLoopEveryPrev(stored_versions, found_tags, 1, <<>>)

\* _filter_stored_tags that keeps the divergent tags only
filter_stored_tags_no_prev(stored_versions, found_tags) ==
    IF Len(stored_versions) = Len(found_tags) THEN <<>>
    ELSE LET kept == SelectSeq([i \in 1..Len(found_tags) |-> <<i, found_tags[i]>>],
                               LAMBDA e : \/ e[1] > Len(stored_versions)
                                          \/ e[2].name # stored_versions[e[1]])
         IN [k \in 1..Len(kept) |-> kept[k][2]]

RECURSIVE FilterLoop(_, _, _, _)
FilterLoop(stored_versions, found_tags, found_tag_idx, result) ==
    IF found_tag_idx > Len(found_tags) THEN result
    ELSE LET found_tag == found_tags[found_tag_idx]
             last_found_tag_idx == found_tag_idx - 1
             divergent == \/ found_tag_idx > Len(stored_versions)
                          \/ found_tag.name # stored_versions[found_tag_idx]
             withPrev == IF last_found_tag_idx >= 1 /\ result = <<>>
                         THEN Append(result, found_tags[last_found_tag_idx])
                         ELSE result
         IN FilterLoop(stored_versions, found_tags, found_tag_idx + 1,
                       IF divergent THEN Append(withPrev, found_tag) ELSE result)

\* _filter_stored_tags without the test of the two lengths
filter_stored_tags_no_length_test(stored_versions, found_tags) ==
    FilterLoop(stored_versions, found_tags, 1, <<>>)

_filter_stored_tags(stored_versions, found_tags) ==
    IF Len(stored_versions) = Len(found_tags) THEN <<>>
    ELSE FilterLoop(stored_versions, found_tags, 1, <<>>)

TagNames(tags) == [i \in 1..Len(tags) |-> tags[i].name]

\* _get_diff_files: zip(tags[:-1], tags[1:]), the couples it diffs, in order
TagPairs(tags) == [i \in 1..(IF Len(tags) = 0 THEN 0 ELSE Len(tags) - 1) |-> <<tags[i], tags[i + 1]>>]

-----------------------------------------------------------------------------
(* DbConnector: the tables and the statements on them.  A db is a record   *)
(* of the three tables, as one session sees them.                          *)

EmptyDb == [version |-> <<>>, file |-> <<>>, hash |-> {}]

\* JSONEncoder().encode(obj) and json.loads: the text of a JSON document is
\* modelled as the document tagged "json"; a document is not its text
JSONEncode(obj) == <<"json", obj>>

loads(text) == text[2]

\* Hash.hash_bytes: SHA-256 of the bytes, modelled as injective
hash_bytes(data) == <<"sha256", data>>

\* insert_version without the select that looks for the row
insert_version_unchecked(db, technology, version_str) ==
    [db EXCEPT !.version =
         Append(@, [technology |-> technology, version |-> version_str])]

insert_version(db, technology, version_str) ==
    IF \E i \in 1..Len(db.version) :
            /\ db.version[i].technology = technology
            /\ db.version[i].version = version_str
    THEN db
    ELSE [db EXCEPT !.version =
              Append(@, [technology |-> technology, version |-> version_str])]

RECURSIVE insert_versions(_, _, _)
insert_versions(db, technology, versions) ==
    IF versions = <<>> THEN db
    ELSE insert_versions(insert_version(db, technology, Head(versions)),
                         technology, Tail(versions))

\* The labels of a technology in the physical order of the table.
StoredLabels(db, technology) ==
    LET rows == SelectSeq(db.version, LAMBDA r : r.technology = technology)
    IN [i \in 1..Len(rows) |-> rows[i].version]

\* get_versions orders by Version.rowid.  Version declares rowid as an
\* ordinary Integer column (it is no part of the primary key) and
\* insert_version never assigns it, so the column is NULL in every row and
\* hides SQLite's implicit rowid: all sort keys are equal and the statement
\* leaves the order of the result open.  The result is one of the orderings
\* of the stored labels.
get_versions(db, technology) == Orderings(StoredLabels(db, technology))

\* insert_file without the select that looks for the row
insert_file_unchecked(db, technology, path) ==
    [db EXCEPT !.file = Append(@, [technology |-> technology, path |-> path])]

insert_file(db, technology, path) ==
    IF \E i \in 1..Len(db.file) :
            /\ db.file[i].technology = technology
            /\ db.file[i].path = path
    THEN db
    ELSE [db EXCEPT !.file = Append(@, [technology |-> technology, path |-> path])]

\* the append loop without the test "version not in existing_versions"
ExtendVersions_no_test(existing_versions, versions) == existing_versions \o versions

\* existing_versions.append(version) for each version not yet in the list
RECURSIVE ExtendVersions(_, _)
ExtendVersions(existing_versions, versions) ==
    IF versions = <<>> THEN existing_versions
    ELSE ExtendVersions(IF Contains(existing_versions, Head(versions))
                        THEN existing_versions
                        ELSE Append(existing_versions, Head(versions)),
                        Tail(versions))

\* insert_or_update_hash that stores the given versions in place of the list
\* of the row
insert_or_update_hash_overwrite(db, file_name, hash_value, technology, versions) ==
    IF {r \in db.hash : r.hash = hash_value} = {}
    THEN [db EXCEPT !.hash = @ \cup
             {[hash |-> hash_value, file |-> file_name, technology |-> technology,
               versions |-> JSONEncode([versions |-> versions])]}]
    ELSE [db EXCEPT !.hash =
             {IF r.hash = hash_value
              THEN [r EXCEPT !.versions = JSONEncode([versions |-> versions])]
              ELSE r : r \in @}]

\* insert_or_update_hash whose update also sets the technology of the row
insert_or_update_hash_retag(db, file_name, hash_value, technology, versions) ==
    LET entries == {r \in db.hash : r.hash = hash_value}
    IN IF entries = {}
       THEN [db EXCEPT !.hash = @ \cup
                {[hash |-> hash_value, file |-> file_name, technology |-> technology,
                  versions |-> JSONEncode([versions |-> versions])]}]
       ELSE LET entry == CHOOSE r \in entries : TRUE
                existing_versions == ExtendVersions(loads(entry.versions).versions, versions)
            IN [db EXCEPT !.hash =
                    {IF r.hash = hash_value
                     THEN [r EXCEPT !.versions = JSONEncode([versions |-> existing_versions]),
                                    !.technology = technology]
                     ELSE r : r \in @}]

insert_or_update_hash(db, file_name, hash_value, technology, versions) ==
    LET entries == {r \in db.hash : r.hash = hash_value}
    IN IF entries = {}
       THEN [db EXCEPT !.hash = @ \cup
                {[hash |-> hash_value, file |-> file_name, technology |-> technology,
                  versions |-> JSONEncode([versions |-> versions])]}]
       ELSE LET entry == CHOOSE r \in entries : TRUE
                existing_versions == ExtendVersions(loads(entry.versions).versions, versions)
            IN [db EXCEPT !.hash =
                    {IF r.hash = hash_value
                     THEN [r EXCEPT !.versions = JSONEncode([versions |-> existing_versions])]
                     ELSE r : r \in @}]

\* find_hash: the (technology, versions) columns of the first row with the
\* hash, or None
find_hash(db, hash_str) ==
    LET rows == {r \in db.hash : r.hash = hash_str}
    IN IF rows = {} THEN None
       ELSE LET r == CHOOSE x \in rows : TRUE IN <<r.technology, r.versions>>

\* the rows of a hash table with the hash
RowsOf(table, hash_value) == {r \in table : r.hash = hash_value}

\* the version list of the one row of rows
ListOf(rows) == loads((CHOOSE r \in rows : TRUE).versions).versions

NoRepetition(s) == \A i, j \in 1..Len(s) : s[i] = s[j] => i = j

\* The parameters of insert_or_update_hash after the session.
insert_or_update_hash_params == <<"file_name", "hash_value", "technology", "versions">>

\* A call insert_or_update_hash(session, *args): Python binds the positional
\* arguments to the parameters and raises TypeError when a parameter without
\* default is left without argument; nothing of the body runs then.
Call_insert_or_update_hash(db, args) ==
    IF Len(args) # Len(insert_or_update_hash_params)
    THEN [raised |-> TRUE, db |-> db]
    ELSE [raised |-> FALSE,
          db |-> insert_or_update_hash(db, args[1], args[2], args[3], args[4])]

-----------------------------------------------------------------------------
(* GitResource: from the tags of a cloned repository to hash records.      *)
(* A tag is [name, tree]; tree[p] is the content of path p at the tag's    *)
(* commit (0: no such path) and, when the tag has it, mode[p] the mode of  *)
(* the entry.  A blob's hexsha is modelled by the content it names.  A     *)
(* diff compares the two trees path by path (no rename detection).         *)

hexsha(content) == <<"blob", content>>

\* stat.S_ISDIR and stat.S_ISREG: S_IFMT(mode) is S_IFDIR (0o040000), S_IFREG
\* (0o100000)
S_IFMT(mode) == ((mode \div 4096) % 16) * 4096

S_ISDIR(mode) == S_IFMT(mode) = 16384

S_ISREG(mode) == S_IFMT(mode) = 32768

\* the modes of the entries of a git tree: a directory (0o040000), a file
\* (0o100644), an executable file (0o100755), a symbolic link (0o120000) and a
\* submodule (0o160000)
Modes == {16384, 33188, 33261, 40960, 57344}

\* commit.tree.traverse(): the entries of the tree of a tag, as [path, mode,
\* hexsha]; a tag that gives no mode holds files of mode 0o100644 only
traverse(tag) ==
    LET present == SelectSeq(Paths, LAMBDA p : tag.tree[p] # 0)
    IN [i \in 1..Len(present) |->
          [path |-> present[i],
           mode |-> IF "mode" \in DOMAIN tag THEN tag.mode[present[i]] ELSE 33188,
           hexsha |-> hexsha(tag.tree[present[i]])]]

\* get_all_files_from_commit: (path, hexsha) of every entry that is no directory
get_all_files_from_commit(commit) ==
    LET kept == SelectSeq(traverse(commit), LAMBDA blob : ~S_ISDIR(blob.mode))
    IN [i \in 1..Len(kept) |-> <<kept[i].path, kept[i].hexsha>>]

_get_tag_files(tag) ==
    LET all == get_all_files_from_commit(tag)
    IN [i \in 1..Len(all) |-> <<all[i][1], tag.name, all[i][2]>>]

\* commit_a.diff(commit_b): one entry per path whose content differs; a_blob
\* is (path, hexsha) of the entry of commit_a, b_blob of the entry of commit_b
\* (None when the commit has no such path)
Diff(tree_a, tree_b) ==
    LET changed == SelectSeq(Paths, LAMBDA p : tree_a[p] # tree_b[p])
    IN [i \in 1..Len(changed) |->
          [a_blob |-> IF tree_a[changed[i]] = 0 THEN None
                      ELSE <<changed[i], hexsha(tree_a[changed[i]])>>,
           b_blob |-> IF tree_b[changed[i]] = 0 THEN None
                      ELSE <<changed[i], hexsha(tree_b[changed[i]])>>]]

\* blob.mode of the entry of a path at a tag
ModeOf(tag, path) == IF "mode" \in DOMAIN tag THEN tag.mode[path] ELSE 33188

\* the test of the if branch and of the elif branch for an entry of the diff
TakesA(diff, tag_a) == diff.a_blob # None /\ S_ISREG(ModeOf(tag_a, diff.a_blob[1]))

TakesB(diff, tag_b) == diff.b_blob # None /\ S_ISREG(ModeOf(tag_b, diff.b_blob[1]))

_get_changes_between_two_tags(tag_a, tag_b) ==
    LET commit_diff == SelectSeq(Diff(tag_a.tree, tag_b.tree),
                                 LAMBDA diff : TakesA(diff, tag_a) \/ TakesB(diff, tag_b))
    IN [i \in 1..Len(commit_diff) |->
          IF TakesA(commit_diff[i], tag_a)
          THEN <<commit_diff[i].a_blob[1], tag_b.name, commit_diff[i].a_blob[2]>>
          ELSE <<commit_diff[i].b_blob[1], tag_b.name, commit_diff[i].b_blob[2]>>]

RECURSIVE ConcatChanges(_, _)
ConcatChanges(pairs, i) ==
    IF i > Len(pairs) THEN <<>>
    ELSE _get_changes_between_two_tags(pairs[i][1], pairs[i][2]) \o ConcatChanges(pairs, i + 1)

\* _get_diff_files that diffs every tag with the first one
get_diff_files_from_first(tags) ==
    ConcatChanges([i \in 1..(IF Len(tags) = 0 THEN 0 ELSE Len(tags) - 1) |->
                       <<tags[1], tags[i + 1]>>], 1)

_get_diff_files(tags) == ConcatChanges(TagPairs(tags), 1)

\* _hash_files: "git cat-file -p" fails for the blobs in unreadable (the
\* entry is logged and skipped), empty content is skipped
_hash_files(files, unreadable) ==
    LET readable == SelectSeq(files, LAMBDA f : f[3][2] \notin unreadable /\ f[3][2] # 1)
    IN [i \in 1..Len(readable) |->
          <<readable[i][1], readable[i][2], hash_bytes(readable[i][3][2])>>]

\* _get_diff_versions: tag_names[index(first_version):index(last_version)];
\* list.index raises ValueError for a name that is not in the list
_get_diff_versions(first_version, last_version, tags) ==
    LET tag_names == TagNames(tags)
    IN IF ~Contains(tag_names, first_version) \/ ~Contains(tag_names, last_version)
       THEN [raised |-> TRUE, value |-> <<>>]
       ELSE [raised |-> FALSE,
             value |-> SubSeq(tag_names, IndexOf(tag_names, first_version),
                              IndexOf(tag_names, last_version) - 1)]

\* The loop of _save_hashes from the i-th record on.  file_record maps a path
\* to (tag, hash) or None.  The two calls of insert_or_update_hash pass three
\* arguments after the session: (hash, technology, versions).
RECURSIVE SaveLoop(_, _, _, _, _, _)
SaveLoop(db, files_info, i, file_record, tags, technology) ==
    IF i > Len(files_info) THEN [raised |-> FALSE, db |-> db]
    ELSE LET file_path == files_info[i][1]
             tag_name == files_info[i][2]
             file_hash == files_info[i][3]
             last == file_record[file_path]
             db1 == insert_file(db, technology, file_path)
             versions == IF last = None THEN [raised |-> FALSE, value |-> <<>>]
                         ELSE _get_diff_versions(last[1], tag_name, tags)
             backfilled ==
                 IF last = None THEN [raised |-> FALSE, db |-> db1]
                 ELSE IF versions.raised THEN [raised |-> TRUE, db |-> db1]
                 ELSE Call_insert_or_update_hash(db1, <<last[2], technology, versions.value>>)
             upserted ==
                 IF backfilled.raised THEN backfilled
                 ELSE Call_insert_or_update_hash(backfilled.db,
                                                 <<file_hash, technology, <<tag_name>>>>)
         IN IF upserted.raised THEN upserted
            ELSE SaveLoop(upserted.db, files_info, i + 1,
                          [file_record EXCEPT ![file_path] = <<tag_name, file_hash>>],
                          tags, technology)

\* _save_hashes in a session that keeps what it did before the exception
_save_hashes_no_rollback(db, files_info, tags, technology) ==
    LET body == SaveLoop(insert_versions(db, technology, TagNames(tags)), files_info, 1,
                         [p \in PathSet |-> None], tags, technology)
    IN [raised |-> body.raised, db |-> body.db, session |-> body.db]

\* _save_hashes inside session_scope: the session's work is committed when
\* the body ends and rolled back when it raises.  session is the database as
\* the session saw it when the body ended or raised.
_save_hashes(db, files_info, tags, technology) ==
    LET body == SaveLoop(insert_versions(db, technology, TagNames(tags)), files_info, 1,
                         [p \in PathSet |-> None], tags, technology)
    IN [raised |-> body.raised,
        db |-> IF body.raised THEN db ELSE body.db,
        session |-> body.db]

\* compute_hashes for the repository with the tags found, on the database db.
\* clone_ok: clone_repository did not raise GitCommandError; stored_tags: what
\* get_versions returned.
compute_hashes(db, found, technology, clone_ok, stored_tags, unreadable) ==
    IF ~clone_ok
    THEN [outcome |-> "clone failed", db |-> db, session |-> db, tags |-> <<>>,
          files |-> <<>>, files_info |-> <<>>]
    ELSE IF stored_tags = <<>> /\ found = <<>>
    THEN \* tags[0] raises IndexError inside the first session_scope
         [outcome |-> "raised", db |-> db, session |-> db, tags |-> <<>>,
          files |-> <<>>, files_info |-> <<>>]
    ELSE LET tag_files == IF stored_tags = <<>> THEN _get_tag_files(found[1]) ELSE <<>>
             tags == _filter_stored_tags(stored_tags, found)
             files == tag_files \o _get_diff_files(tags)
             files_info == _hash_files(files, unreadable)
             saved == _save_hashes(db, files_info, tags, technology)
         IN [outcome |-> IF saved.raised THEN "raised" ELSE "committed",
             db |-> saved.db, session |-> saved.session, tags |-> tags,
             files |-> files, files_info |-> files_info]

\* Resource.should_save.  Strings are sequences of characters here; None and
\* "" are both the empty sequence ("not file_path" holds of both).  re.search
\* is modelled for patterns made of literal characters, "." (any character)
\* and a leading "^".
re_search(pattern, text) ==
    LET anchored == pattern # <<>> /\ pattern[1] = "^"
        body == IF anchored THEN Tail(pattern) ELSE pattern
        starts == IF anchored THEN {1} ELSE 1..(Len(text) + 1)
    IN \E st \in starts :
          /\ st + Len(body) - 1 <= Len(text)
          /\ \A k \in 1..Len(body) : body[k] = "." \/ body[k] = text[st + k - 1]

should_save(exclude_regex, file_path) ==
    IF file_path = <<>> THEN FALSE
    ELSE IF exclude_regex = <<>> THEN TRUE
    ELSE ~re_search(exclude_regex, file_path)

\* the characters of the paths of the model
Chars(path) ==
    CASE path = "LICENSE" -> <<"L", "I", "C", "E", "N", "S", "E">>
      [] path = "setup.cfg" -> <<"s", "e", "t", "u", "p", ".", "c", "f", "g">>
      [] path = "tests/foobar.js" ->
            <<"t", "e", "s", "t", "s", "/", "f", "o", "o", "b", "a", "r", ".", "j", "s">>

\* the exclude pattern of the configuration: "^tests/"
ExcludeRegex == <<"^", "t", "e", "s", "t", "s", "/">>

-----------------------------------------------------------------------------
(* Spec: runs of compute_hashes on a repository that gains tags *)

\* target.split('.git')[0].split('/')[-1] of "http://foo.bar/foobar.git"
Technology == "foobar"

Db == [version |-> version, file |-> file, hash |-> hash]

\* the trees of the tags that appear while the model runs
\* (LICENSE alone with any content, or tests/foobar.js alone)
Trees ==
    {[p \in PathSet |-> IF p = "LICENSE" THEN c ELSE 0] : c \in 0..MaxContent}
    \cup {[p \in PathSet |-> IF p = "tests/foobar.js" THEN 2 ELSE 0]}

\* the history of the backfill example: 1.2.3 (LICENSE, setup.cfg), 1.2.4
\* (setup.cfg changed), 1.2.5 (LICENSE changed)
FoobarHistory ==
    << [name |-> "1.2.3", tree |-> [p \in PathSet |-> IF p = "LICENSE" THEN 2 ELSE IF p = "setup.cfg" THEN 3 ELSE 0]],
       [name |-> "1.2.4", tree |-> [p \in PathSet |-> IF p = "LICENSE" THEN 2 ELSE IF p = "setup.cfg" THEN 4 ELSE 0]],
       [name |-> "1.2.5", tree |-> [p \in PathSet |-> IF p = "LICENSE" THEN 5 ELSE IF p = "setup.cfg" THEN 4 ELSE 0]] >>

\* the contents that occur in the repository
Blobs(tags) == {tags[i].tree[p] : i \in 1..Len(tags), p \in PathSet} \ {0}

NamePairs(tags) == {<<TagPairs(tags)[k][1].name, TagPairs(tags)[k][2].name>> : k \in 1..Len(TagPairs(tags))}

Init ==
    /\ repo \in {<<>>, FoobarHistory}
    /\ version = <<>>
    /\ file = <<>>
    /\ hash = {}
    /\ scanned = {}
    /\ ingested = {}
    /\ run = [op |-> "init"]

\* the record of a run of compute_hashes
\* (before: the tables when a run that raised began; retried: the run before
\* this one raised; from_empty: get_versions returned no tag; repeat: a run has committed
\* since the tag list last changed; all_read: no blob of the run's records was
\* unreadable; rescanned: the couples of this run that an earlier committed
\* run had diffed)
RunOf(r, stored_tags, unreadable) ==
    [op |-> "compute_hashes", outcome |-> r.outcome, tags |-> TagNames(r.tags),
     files_info |-> r.files_info, session |-> r.session,
     from_empty |-> stored_tags = <<>>,
     all_read |-> \A k \in 1..Len(r.files) : r.files[k][3][2] \notin unreadable,
     repeat |-> run.op = "compute_hashes" /\ (run.outcome = "committed" \/ run.repeat),
     before |-> IF r.outcome = "raised" THEN Db ELSE None,
     retried |-> run.op = "compute_hashes" /\ run.outcome = "raised",
     rescanned |-> NamePairs(r.tags) \cap scanned]

\* compute_hashes when clone_repository raises GitCommandError
ComputeHashesCloneFails ==
    LET r == compute_hashes(Db, repo, Technology, FALSE, <<>>, {})
    IN /\ run' = RunOf(r, <<>>, {})
       /\ UNCHANGED <<repo, version, file, hash, scanned, ingested>>

\* compute_hashes on the cloned repository; "git cat-file" fails for the
\* blobs in unreadable
ComputeHashes ==
    \E unreadable \in SUBSET (Blobs(repo) \ {1}) :
    \E stored_tags \in get_versions(Db, Technology) :
        LET r == compute_hashes(Db, repo, Technology, TRUE, stored_tags, unreadable)
        IN /\ version' = r.db.version
           /\ file' = r.db.file
           /\ hash' = r.db.hash
           /\ run' = RunOf(r, stored_tags, unreadable)
           /\ scanned' = IF r.outcome = "committed" THEN scanned \cup NamePairs(r.tags)
                         ELSE scanned
           /\ UNCHANGED <<repo, ingested>>

\* a release is tagged after all the others
AppendTag ==
    \E l \in Labels \ Range(TagNames(repo)), t \in Trees :
        /\ repo' = Append(repo, [name |-> l, tree |-> t])
        /\ run' = [op |-> "append tag"]
        /\ UNCHANGED <<version, file, hash, scanned, ingested>>

\* a tag appears before a tag the repository already has
InsertTag ==
    \E l \in Labels \ Range(TagNames(repo)), t \in Trees, i \in 1..Len(repo) :
        /\ repo' = SubSeq(repo, 1, i - 1) \o <<[name |-> l, tree |-> t]>> \o SubSeq(repo, i, Len(repo))
        /\ run' = [op |-> "insert tag"]
        /\ UNCHANGED <<version, file, hash, scanned, ingested>>

Next == ComputeHashes \/ ComputeHashesCloneFails \/ AppendTag \/ InsertTag

Spec == Init /\ [][Next]_vars


-----------------------------------------------------------------------------
(* SpecFilter: _filter_stored_tags on bounded inputs *)

FilterLabels == <<"A", "B", "C", "D", "E">>

\* a list of tags of the repository: a contiguous slice of FilterLabels
FoundLists ==
    {[i \in 1..(hi - lo + 1) |-> [name |-> FilterLabels[lo + i - 1]]] :
        lo \in 1..Len(FilterLabels), hi \in 0..Len(FilterLabels)}

\* a list read from the version table: labels without repetition
StoredLists == DistinctSeqs(Range(FilterLabels), MaxStored)

InitFilter ==
    /\ repo = <<>>
    /\ version = <<>>
    /\ file = <<>>
    /\ hash = {}
    /\ scanned = {}
    /\ ingested = {}
    /\ run \in {[op |-> "input", stored_versions |-> s, found_tags |-> f, result |-> <<>>] :
                    s \in StoredLists, f \in FoundLists}

FilterStoredTags ==
    /\ run.op = "input"
    /\ run' = [run EXCEPT !.op = "_filter_stored_tags",
                          !.result = _filter_stored_tags(run.stored_versions, run.found_tags)]
    /\ UNCHANGED <<repo, version, file, hash, scanned, ingested>>

NextFilter == FilterStoredTags

SpecFilter == InitFilter /\ [][NextFilter]_vars

-----------------------------------------------------------------------------
(* SpecStore: the DbConnector operations, each in a session that commits *)

StoreTechnologies == {"foobar", "jQuery"}

StoreLabels == {"1.2.3", "1.3.4"}

StoreDigests == {hash_bytes(2), hash_bytes(3)}

\* longest list of versions given to one call
MaxVersions == 2

VersionLists == DistinctSeqs(StoreLabels, MaxVersions)

InitStore ==
    /\ repo = <<>>
    /\ version = <<>>
    /\ file = <<>>
    /\ hash = {}
    /\ scanned = {}
    /\ ingested = {}
    /\ run = [op |-> "init"]

\* jQuery gets any list of labels, the other technology the one label 1.2.3
InsertVersions ==
    \E technology \in StoreTechnologies :
    \E versions \in (IF technology = "jQuery" THEN VersionLists \ {<<>>} ELSE {<<"1.2.3">>}) :
        /\ version' = insert_versions(Db, technology, versions).version
        /\ run' = [op |-> "insert_versions"]
        /\ UNCHANGED <<repo, file, hash, scanned, ingested>>

\* inserted: the labels of the technology in the order of their insertion
GetVersions ==
    \E technology \in StoreTechnologies :
    \E result \in get_versions(Db, technology) :
        /\ run' = [op |-> "get_versions", technology |-> technology,
                   inserted |-> StoredLabels(Db, technology), result |-> result]
        /\ UNCHANGED <<repo, version, file, hash, scanned, ingested>>

InsertOrUpdateHash ==
    \E hash_value \in StoreDigests, technology \in StoreTechnologies, versions \in VersionLists :
        LET r == Call_insert_or_update_hash(Db, <<"LICENSE", hash_value, technology, versions>>)
        IN /\ hash' = r.db.hash
           /\ ingested' =
                 IF \E g \in ingested : g.hash = hash_value
                 THEN {IF g.hash = hash_value
                       THEN [g EXCEPT !.versions = @ \cup Range(versions)]
                       ELSE g : g \in ingested}
                 ELSE ingested \cup {[hash |-> hash_value, technology |-> technology,
                                      versions |-> Range(versions)]}
           /\ run' = [op |-> "insert_or_update_hash", hash |-> hash_value,
                      created |-> \A x \in hash : x.hash # hash_value,
                      technology |-> technology, versions |-> versions]
           /\ UNCHANGED <<repo, version, file, scanned>>

FindHash ==
    \E hash_str \in StoreDigests :
        /\ run' = [op |-> "find_hash", hash_str |-> hash_str, result |-> find_hash(Db, hash_str)]
        /\ UNCHANGED <<repo, version, file, hash, scanned, ingested>>

NextStore == InsertVersions \/ GetVersions \/ InsertOrUpdateHash \/ FindHash

SpecStore == InitStore /\ [][NextStore]_vars


-----------------------------------------------------------------------------
(* SpecSession: HashThePlanet.session_scope around calls of insert_version *)
(* and insert_file.  run.session is the database as the open session sees  *)
(* it; version, file and hash are what is committed.                       *)

\* session_scope whose except clause does not roll back
session_scope_no_rollback(db, session, body_raises, commit_raises) ==
    [calls |-> IF body_raises THEN <<"close">>
               ELSE IF commit_raises THEN <<"commit", "close">>
               ELSE <<"commit", "close">>,
     db |-> IF body_raises THEN db ELSE session,
     raised |-> body_raises \/ commit_raises]

\* What session_scope does once its body has ended: the calls made on the
\* session, in order, the committed database, and whether an exception leaves
\* the with statement.  commit_raises: session.commit() raises (the flush or
\* the COMMIT fails).
session_scope(db, session, body_raises, commit_raises) ==
    [calls |-> IF body_raises THEN <<"rollback", "close">>
               ELSE IF commit_raises THEN <<"commit", "rollback", "close">>
               ELSE <<"commit", "close">>,
     db |-> IF body_raises \/ commit_raises THEN db ELSE session,
     raised |-> body_raises \/ commit_raises]

SessionVersionKeys == {<<"jQuery", "1.2.3">>, <<"jQuery", "1.3.4">>, <<"foobar", "1.2.3">>}

SessionFileKeys == {<<"jQuery", "LICENSE">>, <<"jQuery", "setup.cfg">>, <<"foobar", "LICENSE">>}

InitSession ==
    /\ repo = <<>>
    /\ version = <<>>
    /\ file = <<>>
    /\ hash = {}
    /\ scanned = {}
    /\ ingested = {}
    /\ run = [op |-> "init"]

InSession == run.op = "session" /\ run.body = "running"

\* session = self._session(), then the body starts
OpenSession ==
    /\ ~InSession
    /\ run' = [op |-> "session", body |-> "running", commit |-> "not called",
               session |-> Db, calls |-> <<>>, raised |-> FALSE, last |-> None]
    /\ UNCHANGED <<repo, version, file, hash, scanned, ingested>>

SessionInsertVersion ==
    /\ InSession
    /\ \E k \in SessionVersionKeys :
          run' = [run EXCEPT
                    !.session = insert_version(run.session, k[1], k[2]),
                    !.last = <<"insert_version",
                               \E i \in 1..Len(run.session.version) :
                                   /\ run.session.version[i].technology = k[1]
                                   /\ run.session.version[i].version = k[2]>>]
    /\ UNCHANGED <<repo, version, file, hash, scanned, ingested>>

SessionInsertFile ==
    /\ InSession
    /\ \E k \in SessionFileKeys :
          run' = [run EXCEPT
                    !.session = insert_file(run.session, k[1], k[2]),
                    !.last = <<"insert_file",
                               \E i \in 1..Len(run.session.file) :
                                   /\ run.session.file[i].technology = k[1]
                                   /\ run.session.file[i].path = k[2]>>]
    /\ UNCHANGED <<repo, version, file, hash, scanned, ingested>>

\* the body ends (returns or raises) and session_scope finishes
SessionExit(body_raises, commit_raises) ==
    LET r == session_scope(Db, run.session, body_raises, commit_raises)
    IN /\ version' = r.db.version
       /\ file' = r.db.file
       /\ hash' = r.db.hash
       /\ run' = [run EXCEPT !.body = IF body_raises THEN "raised" ELSE "returned",
                             !.commit = IF body_raises THEN "not called"
                                        ELSE IF commit_raises THEN "raised" ELSE "returned",
                             !.calls = r.calls, !.raised = r.raised, !.last = None]
       /\ UNCHANGED <<repo, scanned, ingested>>

\* the body returns and session.commit() returns
BodyReturns ==
    /\ InSession
    /\ SessionExit(FALSE, FALSE)

\* the body returns and session.commit() raises
BodyReturnsCommitRaises ==
    /\ InSession
    /\ SessionExit(FALSE, TRUE)

\* the body raises
BodyRaises ==
    /\ InSession
    /\ SessionExit(TRUE, FALSE)

NextSession ==
    \/ OpenSession
    \/ SessionInsertVersion
    \/ SessionInsertFile
    \/ BodyReturns
    \/ BodyReturnsCommitRaises
    \/ BodyRaises

SpecSession == InitSession /\ [][NextSession]_vars

-----------------------------------------------------------------------------
(* SpecWorkers: two workers, each in its own session_scope, run             *)
(* insert_or_update_hash for one hash, statement by statement.  hash is the *)
(* committed table.  SQLite lets one connection write at a time: an UPDATE  *)
(* takes the write lock until the commit of its session, and a write that   *)
(* finds the lock taken fails with "database is locked" when its wait ends. *)

Workers == {1, 2}

WorkerHash == hash_bytes(2)

\* stmt = select(Hash).filter_by(hash=hash_value); scalar_one_or_none()
select_hash(table, hash_value) ==
    IF RowsOf(table, hash_value) = {} THEN None
    ELSE <<CHOOSE r \in RowsOf(table, hash_value) : TRUE>>

\* Hash(file=..., hash=..., technology=..., versions=encode(...))
new_hash(file_name, hash_value, technology, versions) ==
    [hash |-> hash_value, file |-> file_name, technology |-> technology,
     versions |-> JSONEncode([versions |-> versions])]

\* update(Hash).where(Hash.hash == hash_value).values(versions=...)
update_hash(table, hash_value, existing_versions) ==
    {IF r.hash = hash_value
     THEN [r EXCEPT !.versions = JSONEncode([versions |-> existing_versions])]
     ELSE r : r \in table}

InitWorkers ==
    /\ repo = <<>>
    /\ version = <<>>
    /\ file = <<>>
    /\ hash \in {{}, {new_hash("LICENSE", WorkerHash, Technology, <<"1.2.3">>)}}
    /\ scanned = {}
    /\ ingested = {}
    /\ run \in {[op |-> "workers",
                 pc |-> [w \in Workers |-> "select"],
                 versions |-> v,
                 entry |-> [w \in Workers |-> None],
                 added |-> [w \in Workers |-> None],
                 lock |-> 0] : v \in [Workers -> {<<l>> : l \in Labels}]}

\* the select of insert_or_update_hash
WorkerSelect(w) ==
    /\ run.pc[w] = "select"
    /\ run' = [run EXCEPT !.pc[w] = "write", !.entry[w] = select_hash(hash, WorkerHash)]
    /\ UNCHANGED <<repo, version, file, hash, scanned, ingested>>

\* "if not entry": session.add(new_hash); the INSERT waits for the flush
WorkerAdd(w) ==
    /\ run.pc[w] = "write"
    /\ run.entry[w] = None
    /\ run' = [run EXCEPT !.pc[w] = "commit",
                          !.added[w] = <<new_hash("LICENSE", WorkerHash, Technology, run.versions[w])>>]
    /\ UNCHANGED <<repo, version, file, hash, scanned, ingested>>

\* "else": the UPDATE with the list built from the entry that was selected;
\* the worker holds the write lock from here to its commit, the other
\* connection sees the table as committed
WorkerUpdate(w) ==
    /\ run.pc[w] = "write"
    /\ run.entry[w] # None
    /\ run.lock = 0
    /\ run' = [run EXCEPT !.pc[w] = "commit", !.lock = w]
    /\ UNCHANGED <<repo, version, file, hash, scanned, ingested>>

\* a write (the UPDATE, or the INSERT of the flush) that finds the lock
\* taken: OperationalError, the session is rolled back
WorkerLocked(w) ==
    /\ \/ run.pc[w] = "write" /\ run.entry[w] # None
       \/ run.pc[w] = "commit" /\ run.added[w] # None
    /\ run.lock \notin {0, w}
    /\ run' = [run EXCEPT !.pc[w] = "failed"]
    /\ UNCHANGED <<repo, version, file, hash, scanned, ingested>>

\* session.commit() of session_scope: the flush sends a pending INSERT
\* (IntegrityError when the primary key exists: rollback), then COMMIT
WorkerCommit(w) ==
    /\ run.pc[w] = "commit"
    /\ run.lock \in {0, w}
    /\ IF run.added[w] # None
       THEN IF RowsOf(hash, WorkerHash) # {}
            THEN /\ run' = [run EXCEPT !.pc[w] = "failed"]
                 /\ UNCHANGED hash
            ELSE /\ hash' = hash \cup {run.added[w][1]}
                 /\ run' = [run EXCEPT !.pc[w] = "done"]
       ELSE /\ hash' = update_hash(hash, WorkerHash,
                           ExtendVersions(loads(run.entry[w][1].versions).versions,
                                          run.versions[w]))
            /\ run' = [run EXCEPT !.pc[w] = "done", !.lock = 0]
    /\ UNCHANGED <<repo, version, file, scanned, ingested>>

NextWorkers ==
    \E w \in Workers :
        \/ WorkerSelect(w)
        \/ WorkerAdd(w)
        \/ WorkerUpdate(w)
        \/ WorkerLocked(w)
        \/ WorkerCommit(w)

SpecWorkers == InitWorkers /\ [][NextWorkers]_vars

-----------------------------------------------------------------------------
(* SpecRun: HashThePlanet.compute_hashs over the git targets of the         *)
(* configuration, through Executor.execute.  A target is the repository its *)
(* URL names: whether it can be cloned, and its tags.                       *)

\* longest list of git targets in the configuration
MaxTargets == 3

TargetKinds ==
    {[clone_ok |-> FALSE, tags |-> <<>>],
     [clone_ok |-> TRUE, tags |-> <<>>],
     [clone_ok |-> TRUE, tags |-> FoobarHistory]}

RECURSIVE TargetLists(_)
TargetLists(n) ==
    IF n = 0 THEN {<<>>}
    ELSE TargetLists(n - 1) \cup
         {Append(l, t) : l \in {x \in TargetLists(n - 1) : Len(x) = n - 1}, t \in TargetKinds}

\* The configurations: {} or {"git": {"targets": [...]}}; a configuration is
\* the sequence of its resource entries.
Configs ==
    {<<>>} \cup {<<[resource |-> "git", targets |-> l]>> : l \in TargetLists(MaxTargets)}

\* Config.resources_name
resources_name == {"git", "npm"}

\* Config.get_used_resources: the resources of the configuration that are
\* resources of the program
get_used_resources(config) ==
    SelectSeq([i \in 1..Len(config) |-> config[i].resource],
              LAMBDA resource_name : resource_name \in resources_name)

\* Config.get_targets: the targets of the resource in the configuration, []
\* when it has none
get_targets(config, resource_name) ==
    LET entries == SelectSeq(config, LAMBDA e : e.resource = resource_name)
    IN IF entries = <<>> THEN <<>> ELSE entries[1].targets

\* The parameters of GitResource.compute_hashes after self.
compute_hashes_params == <<"session_scope", "target">>

\* A call resource_instance.compute_hashes(*args): TypeError when the number
\* of arguments is not that of the parameters; otherwise what compute_hashes
\* does on the target (outcome "clone failed", "raised" or "committed").
Call_compute_hashes(db, args, stored_tags) ==
    IF Len(args) # Len(compute_hashes_params)
    THEN [outcome |-> "TypeError", db |-> db]
    ELSE compute_hashes(db, args[2].tags, Technology, args[2].clone_ok, stored_tags, {})

\* the outcomes of execute that are exceptions
Exceptions == {"TypeError", "raised"}

\* Executor.execute(resource_name, target, exclude_regex): import_module of
\* a resource without module raises ImportError, which is logged; otherwise
\* compute_hashes is called with (session_scope, target, exclude_regex)
execute(db, resource_name, target, exclude_regex, stored_tags) ==
    IF resource_name \notin resources_name
    THEN [outcome |-> "no module", db |-> db]
    ELSE Call_compute_hashes(db, <<"session_scope", target, exclude_regex>>, stored_tags)

RECURSIVE TargetsOf(_, _, _)
\* the (resource_name, target) couples in the order of the two loops
TargetsOf(config, used, i) ==
    IF i > Len(used) THEN <<>>
    ELSE LET targets == get_targets(config, used[i])
         IN [k \in 1..Len(targets) |-> <<used[i], targets[k]>>] \o TargetsOf(config, used, i + 1)

InitRun ==
    /\ repo = <<>>
    /\ version = <<>>
    /\ file = <<>>
    /\ hash = {}
    /\ scanned = {}
    /\ ingested = {}
    /\ run \in {[op |-> "compute_hashs", pc |-> "parse", config |-> c,
                 queue |-> <<>>, done |-> <<>>, exit |-> "running"] : c \in Configs}

\* self._config.parse(self._input_file) returns
ParseConfig ==
    /\ run.op = "compute_hashs" /\ run.pc = "parse"
    /\ run' = [run EXCEPT !.pc = "loop",
                          !.queue = TargetsOf(run.config, get_used_resources(run.config), 1)]
    /\ UNCHANGED <<repo, version, file, hash, scanned, ingested>>

\* parse raises OSError or JSONDecodeError: logged, sys.exit(1)
ParseConfigFails ==
    /\ run.op = "compute_hashs" /\ run.pc = "parse"
    /\ run' = [run EXCEPT !.pc = "ended", !.exit = "sys.exit(1)"]
    /\ UNCHANGED <<repo, version, file, hash, scanned, ingested>>

\* self._executor.execute(resource_name, target) for the next target; an
\* exception that is neither OSError nor JSONDecodeError leaves compute_hashs
ExecuteTarget ==
    /\ run.op = "compute_hashs" /\ run.pc = "loop" /\ run.queue # <<>>
    /\ \E stored_tags \in get_versions(Db, Technology) :
          LET r == execute(Db, Head(run.queue)[1], Head(run.queue)[2], None, stored_tags)
          IN /\ version' = r.db.version
             /\ file' = r.db.file
             /\ hash' = r.db.hash
             /\ run' = [run EXCEPT
                          !.queue = Tail(@),
                          !.done = Append(@, [target |-> Head(run.queue)[2],
                                              outcome |-> r.outcome]),
                          !.pc = IF r.outcome \in Exceptions THEN "ended" ELSE "loop",
                          !.exit = IF r.outcome \in Exceptions THEN r.outcome ELSE "running"]
    /\ UNCHANGED <<repo, scanned, ingested>>

\* the loops end: "Computing done"
ComputingDone ==
    /\ run.op = "compute_hashs" /\ run.pc = "loop" /\ run.queue = <<>>
    /\ run' = [run EXCEPT !.pc = "ended", !.exit = "done"]
    /\ UNCHANGED <<repo, version, file, hash, scanned, ingested>>

NextRun == ParseConfig \/ ParseConfigFails \/ ExecuteTarget \/ ComputingDone

SpecRun == InitRun /\ [][NextRun]_vars

-----------------------------------------------------------------------------
(* SpecLookup: HashThePlanet.analyze_file, analyze_str and analyze_hash on  *)
(* a store that holds some Hash rows.  A string or a file is the content it *)
(* holds; a result is [raised, value].                                      *)

\* the contents looked up (5 never has a row)
LookupContents == {2, 3, 4, 5}

LookupRows ==
    {[hash |-> hash_bytes(2), file |-> "LICENSE", technology |-> "foobar",
      versions |-> JSONEncode([versions |-> <<"1.3.4">>])],
     [hash |-> hash_bytes(3), file |-> "setup.cfg", technology |-> "jQuery",
      versions |-> JSONEncode([versions |-> <<"1.2.3", "1.3.4">>])],
     [hash |-> hash_bytes(4), file |-> "tests/foobar.js", technology |-> "foobar",
      versions |-> JSONEncode([versions |-> <<"1.2.3">>])]}

\* the file paths given to analyze_file: a file with each content, and a
\* path that open() cannot read
FilePaths == {<<"file", c>> : c \in LookupContents} \cup {<<"unreadable">>}

\* Hash.hash_file: open(None) raises TypeError, which the except OSError
\* clause does not catch; an OSError of open or read is logged and None is
\* returned
hash_file(file_path) ==
    IF file_path = None THEN [raised |-> TRUE, value |-> None]
    ELSE IF file_path[1] = "unreadable" THEN [raised |-> FALSE, value |-> None]
    ELSE [raised |-> FALSE, value |-> hash_bytes(file_path[2])]

analyze_hash(db, file_hash) ==
    IF file_hash = None THEN [raised |-> FALSE, value |-> <<None, None>>]
    ELSE [raised |-> FALSE, value |-> find_hash(db, file_hash)]

analyze_str(db, str_data) ==
    IF str_data = None THEN [raised |-> FALSE, value |-> <<None, None>>]
    ELSE analyze_hash(db, hash_bytes(str_data[1]))

analyze_file(db, file_path) ==
    IF hash_file(file_path).raised THEN [raised |-> TRUE, value |-> None]
    ELSE IF hash_file(file_path).value = None THEN [raised |-> FALSE, value |-> <<None, None>>]
    ELSE analyze_hash(db, hash_file(file_path).value)

InitLookup ==
    /\ repo = <<>>
    /\ version = <<>>
    /\ file = <<>>
    /\ hash = {}
    /\ scanned = {}
    /\ ingested = {}
    /\ run = [op |-> "init"]

\* a row of the store is written (insert_or_update_hash on a hash without row)
StoreRow ==
    \E r \in LookupRows :
        /\ RowsOf(hash, r.hash) = {}
        /\ hash' = insert_or_update_hash(Db, r.file, r.hash, r.technology,
                                         loads(r.versions).versions).hash
        /\ run' = [op |-> "store row"]
        /\ UNCHANGED <<repo, version, file, scanned, ingested>>

\* digest: the hash looked up, None when there is none
AnalyzeHash ==
    \E file_hash \in {None} \cup {hash_bytes(c) : c \in LookupContents} :
        /\ run' = [op |-> "analyze_hash", input |-> file_hash, digest |-> file_hash,
                   result |-> analyze_hash(Db, file_hash)]
        /\ UNCHANGED <<repo, version, file, hash, scanned, ingested>>

AnalyzeStr ==
    \E str_data \in {None} \cup {<<c>> : c \in LookupContents} :
        /\ run' = [op |-> "analyze_str", input |-> str_data,
                   digest |-> IF str_data = None THEN None ELSE hash_bytes(str_data[1]),
                   result |-> analyze_str(Db, str_data)]
        /\ UNCHANGED <<repo, version, file, hash, scanned, ingested>>

AnalyzeFile ==
    \E file_path \in {None} \cup FilePaths :
        /\ run' = [op |-> "analyze_file", input |-> file_path,
                   digest |-> IF file_path = None \/ file_path[1] = "unreadable" THEN None
                              ELSE hash_bytes(file_path[2]),
                   result |-> analyze_file(Db, file_path)]
        /\ UNCHANGED <<repo, version, file, hash, scanned, ingested>>

NextLookup == StoreRow \/ AnalyzeHash \/ AnalyzeStr \/ AnalyzeFile

SpecLookup == InitLookup /\ [][NextLookup]_vars

-----------------------------------------------------------------------------
(* SpecHashFiles: GitResource._hash_files, one step per statement that     *)
(* touches the working directory or the result.                            *)

\* the longest list of files given to _hash_files
MaxFiles == 3

\* (path, tag, blob) entries; the blob of content 1 is the empty blob
GitFilesMetadata ==
    {<<"empty", "1.2.9", hexsha(1)>>, <<"LICENSE", "1.2.3", hexsha(2)>>,
     <<"setup.cfg", "1.2.5", hexsha(3)>>}

RECURSIVE FileLists(_)
FileLists(n) ==
    IF n = 0 THEN {<<>>}
    ELSE FileLists(n - 1) \cup
         {Append(l, e) : l \in {m \in FileLists(n - 1) : Len(m) = n - 1},
                         e \in GitFilesMetadata}

\* the directories the process may be in when _hash_files is called
Dirs == {"/foobar/", "/tmp/"}

repo_dir_path == "repo_dir_path"

\* the body of the try for an entry whose content was read, keeping the
\* entries of empty content
HashEntry_keep_empty(files_info, entry, file_content) ==
    Append(files_info, <<entry[1], entry[2], hash_bytes(file_content)>>)

\* the body of the try for an entry whose content was read
HashEntry(files_info, entry, file_content) ==
    IF file_content = 1 THEN files_info
    ELSE Append(files_info, <<entry[1], entry[2], hash_bytes(file_content)>>)

InitHashFiles ==
    /\ repo = <<>>
    /\ version = <<>>
    /\ file = <<>>
    /\ hash = {}
    /\ scanned = {}
    /\ ingested = {}
    /\ \E files \in FileLists(MaxFiles), cwd \in Dirs :
          run = [op |-> "call", files |-> files, cwd |-> cwd]

\* current_dir = os.getcwd(); os.chdir(repo_dir_path)
\* (before and resolved are history: the directory at the call, and what
\* "git cat-file -p" gave for each entry, 0 when it failed)
HashFilesEnter ==
    /\ run.op = "call"
    /\ run' = [op |-> "loop", files |-> run.files, cwd |-> repo_dir_path,
               current_dir |-> run.cwd, idx |-> 1, files_info |-> <<>>,
               before |-> run.cwd, resolved |-> <<>>]
    /\ UNCHANGED <<repo, version, file, hash, scanned, ingested>>

\* check_output returns the content of the blob
HashFilesEntry ==
    /\ run.op = "loop"
    /\ run.idx <= Len(run.files)
    /\ run' = [run EXCEPT !.idx = @ + 1,
                          !.files_info = HashEntry(@, run.files[run.idx],
                                                   run.files[run.idx][3][2]),
                          !.resolved = Append(@, run.files[run.idx][3][2])]
    /\ UNCHANGED <<repo, version, file, hash, scanned, ingested>>

\* check_output raises ValueError or CalledProcessError: logged
HashFilesEntryFails ==
    /\ run.op = "loop"
    /\ run.idx <= Len(run.files)
    /\ run' = [run EXCEPT !.idx = @ + 1, !.resolved = Append(@, 0)]
    /\ UNCHANGED <<repo, version, file, hash, scanned, ingested>>

\* os.chdir(current_dir); return files_info
HashFilesReturn ==
    /\ run.op = "loop"
    /\ run.idx > Len(run.files)
    /\ run' = [run EXCEPT !.op = "returned", !.cwd = run.current_dir]
    /\ UNCHANGED <<repo, version, file, hash, scanned, ingested>>

NextHashFiles == HashFilesEnter \/ HashFilesEntry \/ HashFilesEntryFails \/ HashFilesReturn

SpecHashFiles == InitHashFiles /\ [][NextHashFiles]_vars

-----------------------------------------------------------------------------
(* SpecSnapshot: the snapshot of the first tag that compute_hashes takes,  *)
(* on a tree whose entries have any mode.                                  *)

SnapshotTags ==
    {[name |-> "1.2.3", tree |-> [p \in PathSet |-> IF p \in present THEN 2 ELSE 0],
      mode |-> mode] :
        present \in SUBSET PathSet, mode \in [PathSet -> Modes]}

InitSnapshot ==
    /\ repo \in {<<t>> : t \in SnapshotTags}
    /\ version = <<>>
    /\ file = <<>>
    /\ hash = {}
    /\ scanned = {}
    /\ ingested = {}
    /\ run = [op |-> "init"]

\* compute_hashes: if not stored_tags: files += self._get_tag_files(tags[0])
TagFiles ==
    \E stored_tags \in {<<>>, <<"1.2.3">>} :
        /\ run.op = "init"
        /\ run' = [op |-> "snapshot", stored_tags |-> stored_tags,
                   files |-> IF stored_tags = <<>> THEN _get_tag_files(repo[1]) ELSE <<>>]
        /\ UNCHANGED <<repo, version, file, hash, scanned, ingested>>

NextSnapshot == TagFiles

SpecSnapshot == InitSnapshot /\ [][NextSnapshot]_vars

-----------------------------------------------------------------------------
(* SpecDiff: _get_diff_files on a list of tags whose trees hold files,      *)
(* symbolic links and nothing.                                              *)

\* the longest list of tags given to _get_diff_files
MaxTags == 3

\* the names of the tags, in the order of the list
DiffLabels == <<"1.2.3", "1.2.4", "1.2.5", "1.2.6", "1.2.7">>

\* LICENSE is absent or holds one of two contents, as a file or as a
\* symbolic link; setup.cfg is absent or a file
DiffTrees ==
    {[tree |-> [p \in PathSet |-> IF p = "LICENSE" THEN c
                                  ELSE IF p = "setup.cfg" THEN d ELSE 0],
      mode |-> [p \in PathSet |-> IF p = "LICENSE" THEN m ELSE 33188]] :
        c \in {0, 2, 3}, d \in {0, 2}, m \in {33188, 40960}}

RECURSIVE DiffTagLists(_)
DiffTagLists(n) ==
    IF n = 0 THEN {<<>>}
    ELSE DiffTagLists(n - 1) \cup
         {Append(l, [name |-> DiffLabels[n], tree |-> t.tree, mode |-> t.mode]) :
              l \in {m \in DiffTagLists(n - 1) : Len(m) = n - 1}, t \in DiffTrees}

InitDiff ==
    /\ repo \in DiffTagLists(MaxTags)
    /\ version = <<>>
    /\ file = <<>>
    /\ hash = {}
    /\ scanned = {}
    /\ ingested = {}
    /\ run = [op |-> "init"]

GetDiffFiles ==
    /\ run.op = "init"
    /\ run' = [op |-> "_get_diff_files", files |-> _get_diff_files(repo)]
    /\ UNCHANGED <<repo, version, file, hash, scanned, ingested>>

NextDiff == GetDiffFiles

SpecDiff == InitDiff /\ [][NextDiff]_vars

-----------------------------------------------------------------------------
(* Claims about _filter_stored_tags, checked under SpecFilter *)

Filtered == run.op = "_filter_stored_tags"

\* the indices of found's divergent tags
DivergentIdx(stored_versions, found_tags) ==
    {i \in 1..Len(found_tags) :
        i > Len(stored_versions) \/ found_tags[i].name # stored_versions[i]}

\* the k-th smallest element of a finite set of integers
KthOf(S, k) == CHOOSE i \in S : Cardinality({j \in S : j < i}) = k - 1

\* the divergent tags in found's order, after the tag before the first of them
CatchUpList(stored_versions, found_tags) ==
    LET D == DivergentIdx(stored_versions, found_tags)
        divergentTags == [k \in 1..Cardinality(D) |-> found_tags[KthOf(D, k)]]
    IN IF D = {} THEN <<>>
       ELSE IF KthOf(D, 1) > 1
            THEN <<found_tags[KthOf(D, 1) - 1]>> \o divergentTags
            ELSE divergentTags

\* C4: when the two lengths differ, the result is found's divergent tags in
\* found's order, preceded once by the tag before the first divergent one when
\* there is one; stored=[A,B,D,E], found=[A,B,C,D,E] gives [B,C,D,E] and
\* stored=[A,B,C,D], found=[A,B,C,D,E] gives [D,E].
C4_CatchUpList ==
    Filtered /\ Len(run.stored_versions) # Len(run.found_tags) =>
        /\ run.result = CatchUpList(run.stored_versions, run.found_tags)
        /\ (/\ run.stored_versions = <<"A", "B", "D", "E">>
            /\ TagNames(run.found_tags) = <<"A", "B", "C", "D", "E">>)
              => TagNames(run.result) = <<"B", "C", "D", "E">>
        /\ (/\ run.stored_versions = <<"A", "B", "C", "D">>
            /\ TagNames(run.found_tags) = <<"A", "B", "C", "D", "E">>)
              => TagNames(run.result) = <<"D", "E">>

C4_Witness ==
    /\ Filtered
    /\ run.stored_versions = <<"A", "B", "D", "E">>
    /\ TagNames(run.found_tags) = <<"A", "B", "C", "D", "E">>
    /\ TagNames(run.result) = <<"B", "C", "D", "E">>

\* C5: when stored and found have the same length the result is empty,
\* whatever the labels are.
C5_SameLengthEmpty ==
    Filtered /\ Len(run.stored_versions) = Len(run.found_tags) => run.result = <<>>

\* the two lists have the same length and differ in every label
C5_Witness ==
    /\ Filtered
    /\ run.stored_versions = <<"D", "E">>
    /\ TagNames(run.found_tags) = <<"A", "B">>
    /\ run.result = <<>>

\* C6 as claimed: whenever stored is not empty and the result is not empty, the
\* first divergent tag is not the first element of the result.
C6_Original ==
    Filtered /\ run.stored_versions # <<>> /\ run.result # <<>> =>
        run.result[1] #
            run.found_tags[KthOf(DivergentIdx(run.stored_versions, run.found_tags), 1)]

\* C6 amended: when the first divergent tag is not found's first tag, the
\* result starts with the tag before it, and every divergent tag is the later
\* tag of a couple that _get_diff_files diffs.
C6_BaselineWhenPredecessor ==
    LET D == DivergentIdx(run.stored_versions, run.found_tags)
    IN Filtered /\ run.result # <<>> /\ KthOf(D, 1) > 1 =>
          /\ run.result[1] = run.found_tags[KthOf(D, 1) - 1]
          /\ \A i \in D : \E k \in 1..Len(TagPairs(run.result)) :
                 TagPairs(run.result)[k][2] = run.found_tags[i]

\* a tag was inserted in the middle of the history
C6_Witness ==
    /\ Filtered
    /\ run.stored_versions = <<"A", "C">>
    /\ TagNames(run.found_tags) = <<"A", "B", "C">>
    /\ TagNames(run.result) = <<"A", "B", "C">>

-----------------------------------------------------------------------------
(* Claims about runs of compute_hashes, checked under Spec *)

\* the labels recorded for a digest
VersionSet(digest) ==
    LET rows == {r \in hash : r.hash = digest}
    IN IF rows = {} THEN {}
       ELSE Range(loads((CHOOSE r \in rows : TRUE).versions).versions)

Ran == run.op = "compute_hashes" /\ run.outcome # "clone failed"

\* C1: after the ingestion of the history 1.2.3 (LICENSE=h1, setup.cfg=h2),
\* 1.2.4 (setup.cfg=h3), 1.2.5 (LICENSE=h4) with every blob read, the version
\* sets are h1 -> {1.2.3, 1.2.4}, h2 -> {1.2.3}, h3 -> {1.2.4}, h4 -> {1.2.5}.
C1_BackfillExample ==
    Ran /\ repo = FoobarHistory /\ run.all_read =>
        /\ VersionSet(hash_bytes(2)) = {"1.2.3", "1.2.4"}
        /\ VersionSet(hash_bytes(3)) = {"1.2.3"}
        /\ VersionSet(hash_bytes(4)) = {"1.2.4"}
        /\ VersionSet(hash_bytes(5)) = {"1.2.5"}

\* C2: a run of compute_hashes on a repository whose tags and contents are
\* those of an earlier run that committed adds no Version, File or Hash row
\* and changes no version set.
C2_SecondRunAddsNothing ==
    [][run'.op = "compute_hashes" /\ run'.repeat =>
          version' = version /\ file' = file /\ hash' = hash]_vars

\* the second run went through _save_hashes on a store that holds two tags
C2_Witness ==
    /\ run.op = "compute_hashes"
    /\ run.repeat
    /\ run.outcome = "committed"
    /\ Len(version) >= 2

\* C3: after the ingestion of a whole tag history into an empty store, with
\* every blob read, every tag that has a Version row is in the version set of
\* the digest of every non-empty file of its tree.
C3_EveryVersionAttributed ==
    run.op = "compute_hashes" /\ run.outcome = "committed" /\ run.from_empty /\ run.all_read =>
        \A i \in 1..Len(repo) : \A p \in PathSet :
            (/\ Contains(StoredLabels(Db, Technology), repo[i].name)
             /\ repo[i].tree[p] >= 2)
              => repo[i].name \in VersionSet(hash_bytes(repo[i].tree[p]))

\* C7: no run diffs a couple of tags that an earlier run that committed had
\* diffed.
C7_NoCoupleDiffedTwice ==
    run.op = "compute_hashes" => run.rescanned = {}

-----------------------------------------------------------------------------
(* Claims about the DbConnector operations, checked under SpecStore *)

\* C8: find_hash of a hash that an upsert was given returns the technology of
\* its Hash row (the technology of the first upsert) and a text that decodes
\* to exactly the versions the upserts were given for it; find_hash of a hash
\* no upsert was given returns None.
C8_LookupRoundTrip ==
    run.op = "find_hash" =>
        LET given == {g \in ingested : g.hash = run.hash_str}
        IN IF given = {}
           THEN run.result = None
           ELSE /\ run.result # None
                /\ \E r \in hash : r.hash = run.hash_str /\ r.technology = run.result[1]
                /\ \E g \in given :
                      /\ run.result[1] = g.technology
                      /\ Range(loads(run.result[2]).versions) = g.versions

\* a lookup of a hash whose row holds two versions, every one of them given
\* to an upsert
C8_Witness ==
    /\ run.op = "find_hash"
    /\ run.result # None
    /\ Len(loads(run.result[2]).versions) = 2
    /\ \E g \in ingested : g.hash = run.hash_str /\ Cardinality(g.versions) = 2

\* C10: get_versions returns the labels of the technology, and only those, in
\* the order of their insertion.
C10_InsertionOrder ==
    run.op = "get_versions" => run.result = run.inserted

-----------------------------------------------------------------------------
(* Claims about the order of the version table, checked under Spec *)

\* C11: after a run of compute_hashes that committed, the labels of the
\* technology in the version table, in the order of their insertion, are in
\* the order the repository's tag list has them.
C11_StoredOrderChronological ==
    run.op = "compute_hashes" /\ run.outcome = "committed" =>
        LET stored == StoredLabels(Db, Technology)
            names == TagNames(repo)
        IN \A i, j \in 1..Len(stored) :
              (i < j /\ Contains(names, stored[i]) /\ Contains(names, stored[j]))
                 => IndexOf(names, stored[i]) < IndexOf(names, stored[j])

-----------------------------------------------------------------------------
(* Claims about insert_or_update_hash, checked under SpecStore *)

C13_TechnologyKept ==
    [][(/\ run'.op = "insert_or_update_hash"
        /\ \E r \in hash : r.hash = run'.hash /\ r.technology # run'.technology)
          => \E r \in hash, q \in hash' :
                /\ r.hash = run'.hash /\ q.hash = run'.hash
                /\ q.technology = r.technology
                /\ q.file = r.file
                /\ Range(loads(q.versions).versions) =
                       Range(loads(r.versions).versions) \cup Range(run'.versions)]_vars

\* an upsert by a technology on a row of the other technology that gained a
\* version
C13_Witness ==
    /\ run.op = "insert_or_update_hash"
    /\ ~run.created
    /\ \E r \in hash :
          /\ r.hash = run.hash
          /\ r.technology # run.technology
          /\ Len(loads(r.versions).versions) = 2
          /\ Len(run.versions) = 1

-----------------------------------------------------------------------------
(* Claims about the session, checked under SpecSession *)

\* C14: whatever insert_version and insert_file calls a session makes, the
\* version table has no two rows with one (technology, label) and the file
\* table no two rows with one (technology, path), in the session and once
\* committed; an insert whose key has a row leaves the tables as they were.
C14_OneRowPerKey ==
    /\ [](/\ NoRepetition(version)
          /\ NoRepetition(file)
          /\ run.op = "session" =>
                NoRepetition(run.session.version) /\ NoRepetition(run.session.file))
    /\ [][(run'.op = "session" /\ run'.last # None /\ run'.last[2])
             => run'.session = run.session]_vars

\* a session that holds rows of both tables has repeated an insert_file
C14_Witness ==
    /\ run.op = "session"
    /\ run.last = <<"insert_file", TRUE>>
    /\ Len(run.session.version) >= 2
    /\ Len(run.session.file) >= 2

Ended == run.op = "session" /\ run.body # "running"

-----------------------------------------------------------------------------
(* Claims about what the operations keep, checked under SpecStore *)

-----------------------------------------------------------------------------
(* Claims about interleaved upserts, checked under SpecWorkers *)

\* C16: when both workers have run insert_or_update_hash for the hash and
\* committed, there is one row for the hash and its versions hold the labels
\* of both workers.
C16_NoLostUpdate ==
    (run.op = "workers" /\ \A w \in Workers : run.pc[w] = "done") =>
        /\ Cardinality(RowsOf(hash, WorkerHash)) = 1
        /\ \A w \in Workers :
              Range(run.versions[w]) \subseteq Range(ListOf(RowsOf(hash, WorkerHash)))

-----------------------------------------------------------------------------
(* Claims about a run that fails, checked under Spec *)

\* C18: a run of compute_hashes that raises leaves the three tables as they
\* were; and a run that commits right after a run that raised, on the same
\* repository, leaves the tables that compute_hashes gives on the tables of
\* before the run that raised.
C18_AllOrNothing ==
    [][/\ (run'.op = "compute_hashes" /\ run'.outcome = "raised")
             => version' = version /\ file' = file /\ hash' = hash
       /\ (/\ run.op = "compute_hashes" /\ run.outcome = "raised"
           /\ run'.op = "compute_hashes" /\ run'.outcome = "committed")
             => \E unreadable \in SUBSET (Blobs(repo) \ {1}) :
                \E stored_tags \in get_versions(run.before, Technology) :
                    compute_hashes(run.before, repo, Technology, TRUE,
                                   stored_tags, unreadable).db = Db']_vars

\* a run that committed two tags after a run that raised
C18_Witness ==
    /\ run.op = "compute_hashes"
    /\ run.outcome = "committed"
    /\ run.retried
    /\ Len(version) >= 2

-----------------------------------------------------------------------------
(* Claims about a run over several targets, checked under SpecRun *)

\* C19: a target whose clone fails is skipped: its call returns normally,
\* the tables stay empty of it, and the run goes on to the targets after it.
C19_CloneFailureSkipped ==
    (run.op = "compute_hashs" /\ run.pc = "ended") =>
        \A k \in 1..Len(run.done) :
            ~run.done[k].target.clone_ok =>
                /\ run.done[k].outcome = "clone failed"
                /\ run.queue = <<>>

\* C20: when the configuration is read, the run ends with "Computing done"
\* after a call of execute for every target, whatever happened to one of
\* them (a repository without tags, a clone that fails).
C20_EveryTargetIngested ==
    (run.op = "compute_hashs" /\ run.pc = "ended" /\ run.exit # "sys.exit(1)") =>
        /\ run.exit = "done"
        /\ run.queue = <<>>
        /\ Len(run.done) = Len(TargetsOf(run.config, get_used_resources(run.config), 1))

-----------------------------------------------------------------------------
(* Claims about the lookups, checked under SpecLookup *)

Analyzed == run.op \in {"analyze_hash", "analyze_str", "analyze_file"}

\* C21: analyze_file, analyze_str and analyze_hash do not raise and return a
\* pair: (None, None) when the input is None, when the file cannot be read or
\* when no row has the digest; the (technology, versions) of the row
\* otherwise.
C21_AlwaysAPair ==
    Analyzed =>
        /\ ~run.result.raised
        /\ Len(run.result.value) = 2
        /\ IF run.digest = None \/ RowsOf(hash, run.digest) = {}
           THEN run.result.value = <<None, None>>
           ELSE \E r \in RowsOf(hash, run.digest) :
                    run.result.value = <<r.technology, r.versions>>

-----------------------------------------------------------------------------
(* Claims about _hash_files, checked under SpecHashFiles *)

\* the entries of files whose content was read and is not empty, as records
NonEmptyRecords(files, resolved) ==
    LET kept == SelectSeq([i \in 1..Len(files) |-> <<files[i], resolved[i]>>],
                          LAMBDA e : e[2] \notin {0, 1})
    IN [k \in 1..Len(kept) |-> <<kept[k][1][1], kept[k][1][2], hash_bytes(kept[k][2])>>]

-----------------------------------------------------------------------------
(* Claims about the records of a run and what _save_hashes makes of them,   *)
(* checked under Spec *)

\* the labels of the row of digest in a hash table
VersionSetIn(table, digest) ==
    LET rows == {r \in table : r.hash = digest}
    IN IF rows = {} THEN {}
       ELSE Range(loads((CHOOSE r \in rows : TRUE).versions).versions)

\* the records i < j of files_info are two successive records of one path
Successive(files_info, i, j) ==
    /\ i < j
    /\ files_info[i][1] = files_info[j][1]
    /\ \A k \in (i + 1)..(j - 1) : files_info[k][1] # files_info[i][1]

\* C23: when _save_hashes meets a path seen before as (prev_tag, prev_digest)
\* again at tag t, the session's row of prev_digest holds every label of the
\* repository's tag list from prev_tag up to, not including, t, and the row of
\* the new digest holds t.
C23_BackfillRange ==
    Ran =>
        \A i, j \in 1..Len(run.files_info) :
            Successive(run.files_info, i, j) =>
                LET names == TagNames(repo)
                    first == IndexOf(names, run.files_info[i][2])
                    last == IndexOf(names, run.files_info[j][2])
                IN /\ {names[k] : k \in first..(last - 1)}
                         \subseteq VersionSetIn(run.session.hash, run.files_info[i][3])
                   /\ run.files_info[j][2] \in VersionSetIn(run.session.hash, run.files_info[j][3])

-----------------------------------------------------------------------------
(* Claims about the snapshot, checked under SpecSnapshot *)

\* C24: the snapshot is taken only when the technology has no stored version,
\* of the first tag, and holds one (path, tag, blob) record for every regular
\* file of the tree and none for a directory, a symbolic link or a submodule.
C24_SnapshotRegularFiles ==
    run.op = "snapshot" =>
        IF run.stored_tags # <<>> THEN run.files = <<>>
        ELSE LET regular == SelectSeq(Paths, LAMBDA p : /\ repo[1].tree[p] # 0
                                                        /\ S_ISREG(repo[1].mode[p]))
             IN run.files = [i \in 1..Len(regular) |->
                                <<regular[i], repo[1].name, hexsha(repo[1].tree[regular[i]])>>]

-----------------------------------------------------------------------------
(* Claims about _get_diff_files, checked under SpecDiff *)

Diffed == run.op = "_get_diff_files"

\* the records of files that carry the label
RecordsOf(files, label) == SelectSeq(files, LAMBDA f : f[2] = label)

\* C25: _get_diff_files over t0..tn holds, couple after couple in the order of
\* the list, the changes of each couple of neighbours (t_i, t_i+1) under the
\* label of t_i+1 and nothing else; it is empty for a list of no or one tag.
C25_ConsecutivePairs ==
    Diffed =>
        /\ \A k \in 2..Len(repo) :
              RecordsOf(run.files, repo[k].name)
                  = _get_changes_between_two_tags(repo[k - 1], repo[k])
        /\ \A i, j \in 1..Len(run.files) :
              i < j => IndexOf(TagNames(repo), run.files[i][2])
                          <= IndexOf(TagNames(repo), run.files[j][2])
        /\ \A i \in 1..Len(run.files) :
              \E k \in 2..Len(repo) : run.files[i][2] = repo[k].name
        /\ Len(repo) <= 1 => run.files = <<>>

\* three tags, each couple of neighbours with a change, while the first and
\* the third tag hold the same tree
C25_Witness ==
    /\ Diffed
    /\ Len(repo) = 3
    /\ repo[1].tree = repo[3].tree
    /\ RecordsOf(run.files, "1.2.4") # <<>>
    /\ RecordsOf(run.files, "1.2.5") # <<>>

\* C26: a file that exists at t_i and not at t_i+1 has no record in the diff
\* of (t_i, t_i+1).
C26_DeletionNoRecord ==
    Diffed =>
        \A k \in 2..Len(repo) : \A p \in PathSet :
            (/\ repo[k - 1].tree[p] # 0
             /\ S_ISREG(repo[k - 1].mode[p])
             /\ repo[k].tree[p] = 0)
              => \A i \in 1..Len(run.files) :
                    ~(run.files[i][1] = p /\ run.files[i][2] = repo[k].name)

\* C27: a file modified between t_i and t_i+1 has one record in the diff of
\* the couple, and its blob is the one of the file at t_i+1.
C27_LaterContent ==
    Diffed =>
        \A k \in 2..Len(repo) : \A p \in PathSet :
            (/\ repo[k - 1].tree[p] # 0
             /\ repo[k].tree[p] # 0
             /\ repo[k - 1].tree[p] # repo[k].tree[p]
             /\ S_ISREG(repo[k - 1].mode[p])
             /\ S_ISREG(repo[k].mode[p]))
              => \E i \in 1..Len(run.files) :
                    /\ run.files[i] = <<p, repo[k].name, hexsha(repo[k].tree[p])>>
                    /\ \A j \in 1..Len(run.files) :
                          (run.files[j][1] = p /\ run.files[j][2] = repo[k].name) => j = i

\* the run of compute_hashes that ingests the whole history of the repository
\* on an empty store
SingleRun == compute_hashes(EmptyDb, repo, Technology, TRUE, <<>>, {})

-----------------------------------------------------------------------------
(* The catch-up list as a slice of the tag list, checked under SpecFilter *)

\* C30: the list that _filter_stored_tags returns is a contiguous slice of
\* found that ends at found's last tag; hence every couple that
\* _get_diff_files diffs is a couple of neighbours of found, and
\* _get_diff_versions gives the same labels over the result as over found.
C30_ContiguousSlice ==
    Filtered /\ run.result # <<>> =>
        /\ \E lo \in 1..Len(run.found_tags) :
              run.result = SubSeq(run.found_tags, lo, Len(run.found_tags))
        /\ \A k \in 1..Len(TagPairs(run.result)) :
              \E i \in 1..(Len(run.found_tags) - 1) :
                  TagPairs(run.result)[k] = <<run.found_tags[i], run.found_tags[i + 1]>>
        /\ \A i, j \in 1..Len(run.result) :
              i < j => _get_diff_versions(run.result[i].name, run.result[j].name, run.result)
                         = _get_diff_versions(run.result[i].name, run.result[j].name,
                                              run.found_tags)

====
